---- MODULE Spec2Model ----
(***************************************************************************)
(* Model of src/pdf_to_markdown/simple_pdf_to_markdown.py: the conversion  *)
(* of a PDF (pages of formatted text lines and extracted tables) into       *)
(* Markdown blocks by process_page, table_to_markdown and                   *)
(* convert_pdf_to_markdown (specification Spec), and of                    *)
(* src/markdown_to_pptx/simple_markdown_to_pptx.py: the making of one      *)
(* slide by parse_markdown_elements and create_slide (specification        *)
(* DeckSpec).                                                              *)
(*                                                                         *)
(* A text is a sequence of characters.  A character is a one-character     *)
(* string; a character outside ASCII is named by its code point, such as   *)
(* "U+2022" for the bullet glyph.  Python's None is the record None, and a *)
(* value that may be None is Some(v) otherwise.                            *)
(***************************************************************************)
EXTENDS Integers, Sequences, FiniteSets, TLC

VARIABLES
    pdf,                \* the document: pdf.pages, a sequence of pages
    body_size,          \* convert_pdf_to_markdown: body_size
    page_num,           \* convert_pdf_to_markdown: page_num of enumerate(pdf.pages, 1)
    pc,                 \* position in convert_pdf_to_markdown / process_page
    tbl,                \* process_page: tables already visited by "for table in tables"
    lines,              \* process_page: lines
    ln,                 \* process_page: lines already visited by "for line_info in lines"
    current_list_type,  \* process_page: current_list_type
    numbered_counter,   \* process_page: numbered_counter
    paragraph_lines,    \* process_page: paragraph_lines
    md_parts,           \* process_page: md_parts
    page_parts,         \* what process_page returned for each page processed so far
    md_output,          \* convert_pdf_to_markdown: md_output
    result,             \* the string convert_pdf_to_markdown returns
    slide_data,         \* create_slide: slide_data (content, is_title, single_page)
    content_lines,      \* parse_markdown_elements: lines
    line_i,             \* parse_markdown_elements: i
    iterations,         \* the iterations the main loop of parse_markdown_elements has made
    elements,           \* parse_markdown_elements / create_slide: elements
    is_title_slide,     \* create_slide: is_title_slide
    idx,                \* create_slide: elements already visited by "for idx, elem"
    y_pos,              \* create_slide: y_pos, in 1/7200 inch
    shapes,             \* the places in elements of the elements drawn on the slide
    deck_pc             \* position in create_slide / parse_markdown_elements

vars == <<pdf, body_size, page_num, pc, tbl, lines, ln, current_list_type,
          numbered_counter, paragraph_lines, md_parts, page_parts, md_output, result>>

\* the variables of src/markdown_to_pptx/simple_markdown_to_pptx.py
deck_vars == <<slide_data, content_lines, line_i, iterations, elements, is_title_slide,
               idx, y_pos, shapes, deck_pc>>

----------------------------------------------------------------------------
(* Python values *)

None == [none |-> TRUE]

Some(v) == [none |-> FALSE, val |-> v]

\* the largest of a non-empty finite set of integers
Max(S) == CHOOSE m \in S : \A k \in S : k <= m

\* the smallest of a non-empty finite set of integers
Min(S) == CHOOSE m \in S : \A k \in S : m <= k

----------------------------------------------------------------------------
(* Characters and texts *)

\* what \s of re matches and str.strip() removes (the members a text here can hold)
Whitespace == {" ", "\t", "\n", "\r", "\f", "U+3000"}

\* what \d of re matches (the ASCII members)
Digits == {"0", "1", "2", "3", "4", "5", "6", "7", "8", "9"}

\* the character class of the first bullet pattern
BulletGlyphs ==
    {"U+2022", "U+30FB", "U+25CF", "U+25CB", "U+25C6", "U+25C7", "U+25AA",
     "U+25AB", "U+25A0", "U+25A1", "U+25BA", "U+25B8", "U+2023", "U+2043"}

\* the character class of the second bullet pattern
BulletMarks == {"-", "*"}

\* the closing characters of the first numbered pattern: . U+FF09 )
NumberClosers == {".", "U+FF09", ")"}

\* the opening and closing characters of the second numbered pattern
ParenOpeners == {"(", "U+FF08"}

ParenClosers == {")", "U+FF09"}

\* the character class of the third numbered pattern: the circled numbers 1 to 20
CircledNumbers ==
    {"U+2460", "U+2461", "U+2462", "U+2463", "U+2464", "U+2465", "U+2466",
     "U+2467", "U+2468", "U+2469", "U+246A", "U+246B", "U+246C", "U+246D",
     "U+246E", "U+246F", "U+2470", "U+2471", "U+2472", "U+2473"}

\* the text after its first k characters
Drop(t, k) == SubSeq(t, k + 1, Len(t))

\* the first position at or after i whose character is outside S; Len(t) + 1 if none
SkipWhile(t, i, S) ==
    Min({j \in i..(Len(t) + 1) : j = Len(t) + 1 \/ t[j] \notin S})

\* str.strip()
Strip(t) ==
    LET first == SkipWhile(t, 1, Whitespace)
        keep == {j \in 1..Len(t) : t[j] \notin Whitespace}
    IN  IF keep = {} THEN <<>> ELSE SubSeq(t, first, Max(keep))

\* sep.join(ts)
RECURSIVE Join(_, _)
Join(ts, sep) ==
    IF ts = <<>> THEN <<>>
    ELSE IF Len(ts) = 1 THEN ts[1]
    ELSE ts[1] \o sep \o Join(Tail(ts), sep)

\* str.replace(old, new) for a one-character old
Replace(t, old, new) ==
    Join([j \in 1..Len(t) |-> IF t[j] = old THEN new ELSE <<t[j]>>], <<>>)

\* str(n) of an integer n >= 0
RECURSIVE IntStr(_)
IntStr(n) ==
    LET digit == <<"0", "1", "2", "3", "4", "5", "6", "7", "8", "9">>[(n % 10) + 1]
    IN  IF n < 10 THEN <<digit>> ELSE Append(IntStr(n \div 10), digit)

\* c * n of a character c
Repeat(c, n) == [j \in 1..n |-> c]

----------------------------------------------------------------------------
(* CONFIG: the list patterns.  A pattern operator gives the number of      *)
(* characters re.match consumes at the start of the text, or -1 when the   *)
(* pattern does not match.                                                 *)

\* ^[\s]*[<bullet glyphs>]\s*
BulletPattern1(t) ==
    LET i == SkipWhile(t, 1, Whitespace)
    IN  IF i <= Len(t) /\ t[i] \in BulletGlyphs
        THEN SkipWhile(t, i + 1, Whitespace) - 1
        ELSE -1

\* ^[\s]*[-\*]\s+
BulletPattern2(t) ==
    LET i == SkipWhile(t, 1, Whitespace)
    IN  IF /\ i + 1 <= Len(t)
           /\ t[i] \in BulletMarks
           /\ t[i + 1] \in Whitespace
        THEN SkipWhile(t, i + 1, Whitespace) - 1
        ELSE -1

\* ^[\s]*(\d+)[\.<U+FF09>\)]\s*
NumberedPattern1(t) ==
    LET i == SkipWhile(t, 1, Whitespace)
        j == SkipWhile(t, i, Digits)
    IN  IF j > i /\ j <= Len(t) /\ t[j] \in NumberClosers
        THEN SkipWhile(t, j + 1, Whitespace) - 1
        ELSE -1

\* ^[\s]*[\(<U+FF08>](\d+)[\)<U+FF09>]\s*
NumberedPattern2(t) ==
    LET i == SkipWhile(t, 1, Whitespace)
        j == SkipWhile(t, i + 1, Digits)
    IN  IF /\ i <= Len(t)
           /\ t[i] \in ParenOpeners
           /\ j > i + 1
           /\ j <= Len(t)
           /\ t[j] \in ParenClosers
        THEN SkipWhile(t, j + 1, Whitespace) - 1
        ELSE -1

\* ^[\s]*([<circled numbers>])\s*
NumberedPattern3(t) ==
    LET i == SkipWhile(t, 1, Whitespace)
    IN  IF i <= Len(t) /\ t[i] \in CircledNumbers
        THEN SkipWhile(t, i + 1, Whitespace) - 1
        ELSE -1

\* re.sub(pattern, '', text) for a pattern anchored at the start: m is the
\* number of characters the pattern consumes on t, or -1
SubEmpty(t, m) == IF m < 0 THEN t ELSE Drop(t, m)

is_bullet_list(text) ==
    BulletPattern1(text) >= 0 \/ BulletPattern2(text) >= 0

is_numbered_list(text) ==
    \/ NumberedPattern1(text) >= 0
    \/ NumberedPattern2(text) >= 0
    \/ NumberedPattern3(text) >= 0

\* every pattern of the list is substituted in turn, then the text is stripped
clean_bullet_text(text) ==
    LET t1 == SubEmpty(text, BulletPattern1(text))
        t2 == SubEmpty(t1, BulletPattern2(t1))
    IN  Strip(t2)

clean_numbered_text(text) ==
    LET t1 == SubEmpty(text, NumberedPattern1(text))
        t2 == SubEmpty(t1, NumberedPattern2(t1))
        t3 == SubEmpty(t2, NumberedPattern3(t2))
    IN  Strip(t3)

----------------------------------------------------------------------------
(* get_heading_level.  Sizes are whole numbers (of points; of hundredths   *)
(* of a point in documents given by their characters), on which the         *)
(* quotient font_size / body_size compares with 1.5, 1.3 and 1.15 as the    *)
(* exact ratio does: ratio >= 1.5 iff 2 * font_size >= 3 * body_size, and   *)
(* likewise 10 : 13 and 20 : 23.  The result 0 stands for None (the caller  *)
(* only tests the level's truth value).                                     *)

\* RatioAtLeast with the slip of an exclusive threshold
RatioAtLeast_Exclusive(font_size, body, num, den) ==
    den * font_size > num * body

\* ratio >= num / den, for ratio = font_size / body and body > 0
RatioAtLeast(font_size, body, num, den) ==
    den * font_size >= num * body

get_heading_level(font_size, body) ==
    IF body.none \/ body.val = 0 \/ font_size.none \/ font_size.val = 0
    THEN 0
    ELSE IF RatioAtLeast(font_size.val, body.val, 3, 2) THEN 1
    ELSE IF RatioAtLeast(font_size.val, body.val, 13, 10) THEN 2
    ELSE IF RatioAtLeast(font_size.val, body.val, 23, 20) THEN 3
    ELSE 0

----------------------------------------------------------------------------
(* table_to_markdown.  A table is a sequence of rows, a row a sequence of   *)
(* cells, a cell None or Some(text).                                        *)

\* str(cell) if cell else ''
CellStr(cell) == IF cell.none \/ cell.val = <<>> THEN <<>> ELSE cell.val

\* '| ' + ' | '.join(cells) + ' |'
TableLine(cells) == <<"|", " ">> \o Join(cells, <<" ", "|", " ">>) \o <<" ", "|">>

\* the header row: [str(cell) if cell else '' for cell in header]
header_cells(header) == [j \in 1..Len(header) |-> CellStr(header[j])]

\* a data row: the same, then cell.replace('\n', ' ') on every cell
data_cells(row) == [j \in 1..Len(row) |-> Replace(CellStr(row[j]), "\n", <<" ">>)]

\* '| ' + ' | '.join(['---'] * len(header)) + ' |'
separator_line(header) == TableLine([j \in 1..Len(header) |-> <<"-", "-", "-">>])

\* table_is_empty with the slip of also refusing a table of a header row alone
table_is_empty_HeaderAlone(table) ==
    table = <<>> \/ table[1] = <<>> \/ Len(table) < 2

\* the guard "if not table or not table[0]: return ''"
table_is_empty(table) == table = <<>> \/ table[1] = <<>>

\* md_lines of table_to_markdown
table_md_lines(table) ==
    <<TableLine(header_cells(table[1])), separator_line(table[1])>>
    \o [r \in 1..(Len(table) - 1) |-> TableLine(data_cells(table[r + 1]))]

table_to_markdown(table) ==
    IF table_is_empty(table) THEN <<>>
    ELSE Join(table_md_lines(table), <<"\n">>)

----------------------------------------------------------------------------
(* process_page: the pieces of one iteration of its loops *)

\* a line as extract_text_with_formatting returns it
Line(text, font_size, is_bold) ==
    [text |-> text, font_size |-> font_size, is_bold |-> is_bold]

\* a page: the lines extract_text_with_formatting returns for it and the
\* tables page.extract_tables() returns for it
Page(page_lines, tables) == [lines |-> page_lines, tables |-> tables]

\* the length under which a bold line is an emphasis: len(text) < 100
EmphasisLimit == 100

\* EmitBlock with the slip of joining a block to a preceding block of its kind
EmitBlock_Merging(parts, kind, content) ==
    IF parts # <<>> /\ parts[Len(parts)][1] = kind
    THEN [parts EXCEPT ![Len(parts)] = <<kind, @[2] \o <<" ">> \o content>>]
    ELSE Append(parts, <<kind, content>>)

\* md_parts.append((kind, content))
EmitBlock(parts, kind, content) == Append(parts, <<kind, content>>)

\* FlushParagraph with the slip of joining the lines without a separator
FlushParagraph_Unspaced(parts, par) ==
    IF par # <<>> THEN Append(parts, <<"paragraph", Join(par, <<>>)>>) ELSE parts

\* if paragraph_lines: md_parts.append(('paragraph', ' '.join(paragraph_lines)))
FlushParagraph(parts, par) ==
    IF par # <<>> THEN EmitBlock(parts, "paragraph", Join(par, <<" ">>)) ELSE parts

\* NextNumber with the slip of never starting the count again
NextNumber_NoReset(list_type, counter) == counter + 1

\* if current_list_type != 'numbered': numbered_counter = 0
\* numbered_counter += 1
NextNumber(list_type, counter) ==
    (IF list_type # "numbered" THEN 0 ELSE counter) + 1

\* FreshLocals with the slip of keeping the three in module-level state, so
\* that a call finds what the last call left
FreshLocals_Kept ==
    [current_list_type |-> current_list_type, numbered_counter |-> numbered_counter,
     paragraph_lines |-> paragraph_lines]

\* current_list_type, numbered_counter and paragraph_lines as process_page
\* creates them on every call
FreshLocals ==
    [current_list_type |-> "None", numbered_counter |-> 0, paragraph_lines |-> <<>>]

\* Branch with the slip of testing the list prefixes before the heading level
Branch_ListFirst(line, body) ==
    IF is_bullet_list(line.text) THEN "bullet"
    ELSE IF is_numbered_list(line.text) THEN "numbered"
    ELSE IF get_heading_level(line.font_size, body) # 0 THEN "heading"
    ELSE IF line.is_bold /\ Len(line.text) < EmphasisLimit THEN "bold"
    ELSE "paragraph"

\* the branch of the loop body a line takes: the tests are made in this order
\* and the first that succeeds decides
Branch(line, body) ==
    IF get_heading_level(line.font_size, body) # 0 THEN "heading"
    ELSE IF is_bullet_list(line.text) THEN "bullet"
    ELSE IF is_numbered_list(line.text) THEN "numbered"
    ELSE IF line.is_bold /\ Len(line.text) < EmphasisLimit THEN "bold"
    ELSE "paragraph"

----------------------------------------------------------------------------
(* convert_pdf_to_markdown: the blank lines between the blocks of a page *)

\* ComposeFrom with the slip of a blank line at every change of kind
RECURSIVE ComposeFrom_AnyKind(_, _, _, _)
ComposeFrom_AnyKind(out, parts, k, prev) ==
    IF k > Len(parts) THEN out
    ELSE
        LET blank == ~prev.none /\ prev.val # parts[k][1]
            out1 == IF blank THEN Append(out, <<>>) ELSE out
        IN  ComposeFrom_AnyKind(Append(out1, parts[k][2]), parts, k + 1, Some(parts[k][1]))

\* the loop "for part_type, content in page_parts" from block k on, prev being
\* prev_type (None before the first block)
RECURSIVE ComposeFrom(_, _, _, _)
ComposeFrom(out, parts, k, prev) ==
    IF k > Len(parts) THEN out
    ELSE
        LET part_type == parts[k][1]
            content == parts[k][2]
            blank == /\ ~prev.none
                     /\ prev.val # part_type
                     /\ part_type \in {"heading", "paragraph", "table"}
            out1 == IF blank THEN Append(out, <<>>) ELSE out
        IN  ComposeFrom(Append(out1, content), parts, k + 1, Some(part_type))

\* ComposePage with the slip of a blank line after the last page too
ComposePage_GapAfterEach(out, parts, num, n_pages) ==
    Append(ComposeFrom(out, parts, 1, None), <<>>)

\* one page's share of md_output: its blocks, then the blank line between pages
ComposePage(out, parts, num, n_pages) ==
    LET out1 == ComposeFrom(out, parts, 1, None)
    IN  IF num < n_pages THEN Append(out1, <<>>) ELSE out1

----------------------------------------------------------------------------
(* The characters of a page: page.chars, page.extract_text(),              *)
(* page.find_tables().  The size of a character is counted in hundredths   *)
(* of a point and its top in tenths of a point, so that round(s, 1) and    *)
(* round(top, 0) work on integers.  The sizes of lines given directly by   *)
(* Page are in any unit: only their ratio to the body size is used.        *)

\* a character of page.chars; size is None when the character carries none
Char(text, size, top, x0, fontname) ==
    [text |-> text, size |-> size, top |-> top, x0 |-> x0, fontname |-> fontname]

\* a page as pdfplumber presents it: its characters, the text extract_text()
\* returns (None when it returns none), the tables extract_tables() returns
\* and the top and the bottom of the bbox of each table find_tables() returns
\* (the tables of the documents are as wide as the page)
RawPage(chars, text, tables, table_tops, table_bottoms) ==
    [chars |-> chars, text |-> text, tables |-> tables, table_tops |-> table_tops,
     table_bottoms |-> table_bottoms]

\* n points in hundredths of a point
Points(n) == 100 * n

\* body_size = 12 when no character has a size
DefaultBodySize == 12

\* round(s, 1) of a size in hundredths; a size halfway between two tenths,
\* where the binary value of the float decides, is rounded up
round1(s) == IF s % 10 < 5 THEN s - (s % 10) ELSE s - (s % 10) + 10

\* round(top, 0) of a top in tenths: the nearest whole, the even one at a half
round0(top) ==
    LET q == top \div 10
        r == top % 10
    IN  IF r < 5 THEN q
        ELSE IF r > 5 THEN q + 1
        ELSE IF q % 2 = 0 THEN q ELSE q + 1

\* if char.get('size'): the character has a size and it is not 0
has_size(c) == ~c.size.none /\ c.size.val # 0

\* [char.get('size', 0) for char in chars if char.get('size')]
sizes_of(chars) ==
    LET sized == SelectSeq(chars, has_size)
    IN  [k \in 1..Len(sized) |-> sized[k].size.val]

\* all_sizes with the slip of sampling the first page only
all_sizes_FirstPage(pages) ==
    IF pages = <<>> THEN <<>> ELSE sizes_of(pages[1].chars)

\* all_sizes: the sizes of the characters of all pages, in page order
RECURSIVE all_sizes(_)
all_sizes(pages) ==
    IF pages = <<>> THEN <<>>
    ELSE sizes_of(pages[1].chars) \o all_sizes(Tail(pages))

\* the number of entries of s equal to v
Multiplicity(s, v) == Cardinality({k \in 1..Len(s) : s[k] = v})

\* Counter(s).most_common(1)[0][0]: the value counted most often, the one
\* met first among those counted equally often
most_common(s) ==
    LET first(v) == Min({k \in 1..Len(s) : s[k] = v})
    IN  CHOOSE v \in {s[k] : k \in 1..Len(s)} :
            \A w \in {s[k] : k \in 1..Len(s)} :
                \/ Multiplicity(s, w) < Multiplicity(s, v)
                \/ Multiplicity(s, w) = Multiplicity(s, v) /\ first(v) <= first(w)

\* the body size convert_pdf_to_markdown estimates for the pages
estimate_body_size(pages) ==
    LET sizes == all_sizes(pages)
    IN  IF sizes = <<>> THEN Points(DefaultBodySize)
        ELSE most_common([k \in 1..Len(sizes) |-> round1(sizes[k])])

\* text.split(sep) for a separator of one character
RECURSIVE split(_, _)
split(t, sep) ==
    IF \A k \in 1..Len(t) : t[k] # sep THEN <<t>>
    ELSE LET at == Min({k \in 1..Len(t) : t[k] = sep})
         IN  <<SubSeq(t, 1, at - 1)>> \o split(SubSeq(t, at + 1, Len(t)), sep)

\* sub in t, for texts
Contains(t, sub) ==
    \E k \in 1..(Len(t) - Len(sub) + 1) : SubSeq(t, k, k + Len(sub) - 1) = sub

\* 'Bold' in fn or 'bold' in fn
font_is_bold(fn) ==
    Contains(fn, <<"B", "o", "l", "d">>) \/ Contains(fn, <<"b", "o", "l", "d">>)

\* sorted(cs, key=lambda c: c.get('x0', 0)): by x0, characters of equal x0 in
\* the order they had
sorted_by_x0(cs) ==
    LET before(i, j) == cs[i].x0 < cs[j].x0 \/ (cs[i].x0 = cs[j].x0 /\ i < j)
        place(i) == 1 + Cardinality({j \in 1..Len(cs) : before(j, i)})
    IN  [k \in 1..Len(cs) |-> cs[CHOOSE i \in 1..Len(cs) : place(i) = k]]

\* sorted(S) for a set of numbers
RECURSIVE sorted(_)
sorted(S) == IF S = {} THEN <<>> ELSE <<Min(S)>> \o sorted(S \ {Min(S)})

\* char_lines[y], sorted by x0: the characters whose rounded top is y
line_chars(chars, y) ==
    sorted_by_x0(SelectSeq(chars, LAMBDA c : round0(c.top) = y))

\* ''.join(c.get('text', '') for c in line_chars)
RECURSIVE char_text(_)
char_text(cs) == IF cs = <<>> THEN <<>> ELSE <<cs[1].text>> \o char_text(Tail(cs))

\* sum(sizes)
RECURSIVE sum(_)
sum(sizes) == IF sizes = <<>> THEN 0 ELSE sizes[1] + sum(Tail(sizes))

\* avg_size: the mean of the sizes of the line, None when it has none; the
\* documents checked have lines whose mean is a whole number of hundredths
avg_size(cs) ==
    IF sizes_of(cs) = <<>> THEN None
    ELSE Some(sum(sizes_of(cs)) \div Len(sizes_of(cs)))

\* the line built from the characters of one rounded top
char_line(cs) ==
    Line(Strip(char_text(cs)), avg_size(cs),
         \E k \in 1..Len(cs) : font_is_bold(cs[k].fontname))

\* the lines of a page without characters: the lines of its text that are
\* not blank, stripped, without size and not bold
plain_lines(text) ==
    LET stripped == [k \in 1..Len(split(text, "\n")) |-> Strip(split(text, "\n")[k])]
        kept == SelectSeq(stripped, LAMBDA t : t # <<>>)
    IN  [k \in 1..Len(kept) |-> Line(kept[k], None, FALSE)]

\* the lines of a page with characters: one for each rounded top, from the
\* top of the page down, those of blank text left out
geometry_lines(chars) ==
    LET ys == sorted({round0(chars[k].top) : k \in 1..Len(chars)})
        built == [k \in 1..Len(ys) |-> char_line(line_chars(chars, ys[k]))]
    IN  SelectSeq(built, LAMBDA l : l.text # <<>>)

\* extract_text_with_formatting(page, body_size); a page made by Page has its
\* lines given
extract_text_with_formatting(p) ==
    IF "lines" \in DOMAIN p THEN p.lines
    ELSE IF p.text.none \/ p.text.val = <<>> THEN <<>>
    ELSE IF p.chars = <<>> THEN plain_lines(p.text.val)
    ELSE geometry_lines(p.chars)

----------------------------------------------------------------------------
(* The documents checked *)

\* the most lines of a document of text lines
MaxLines == 3

\* the most pages those lines are spread over
MaxPages == 2

\* the most rows of a table, the header row included
MaxRows == 2

\* the most cells of a row
MaxCols == 2

\* the sequences over S of length at most n
SeqsUpTo(S, n) == UNION {[1..k -> S] : k \in 0..n}

\* the non-decreasing sequences of n positions in 0..len
CutsOf(len, n) ==
    {c \in [1..n -> 0..len] : \A k \in 1..(n - 1) : c[k] <= c[k + 1]}

\* the line sequence s cut into Len(cuts) + 1 pages, none holding a table
PagesOf(s, cuts) ==
    LET edge == <<0>> \o cuts \o <<Len(s)>>
    IN  [k \in 1..(Len(cuts) + 1) |-> Page(SubSeq(s, edge[k] + 1, edge[k + 1]), <<>>)]

\* lines of body text size 12: a level-1 heading, a bullet item, a numbered
\* item whose numeral is 7, an emphasis and two paragraph fragments
TextLines ==
    {Line(<<"T">>, Some(24), FALSE),
     Line(<<"U+2022", " ", "b">>, Some(12), FALSE),
     Line(<<"7", ")", " ", "y">>, Some(12), FALSE),
     Line(<<"e">>, Some(12), TRUE),
     Line(<<"p">>, Some(12), FALSE),
     Line(<<"q">>, Some(12), FALSE)}

\* documents of text: every sequence of at most MaxLines lines on 0 to
\* MaxPages pages, of body size 12
TextInput ==
    /\ \/ pdf = <<>>
       \/ \E k \in 0..MaxLines, n \in 0..(MaxPages - 1) :
            \E s \in [1..k -> TextLines], c \in CutsOf(k, n) :
                pdf = PagesOf(s, c)
    /\ body_size = Some(12)

\* cells: a missing cell, a plain cell and a cell holding a line break
Cells == {None, Some(<<"a">>), Some(<<"a", "\n", "b">>)}

\* rows of at most MaxCols cells
Rows == SeqsUpTo(Cells, MaxCols)

\* documents of one page holding one table of at most MaxRows rows, above a
\* heading line
TableInput ==
    /\ \E k \in 0..MaxRows :
        \E table \in [1..k -> Rows] :
            pdf = <<Page(<<Line(<<"T">>, Some(24), FALSE)>>, <<table>>)>>
    /\ body_size = Some(12)

\* texts with and without a list prefix, and bold texts around EmphasisLimit
ClassifyTexts ==
    {<<"a">>,
     <<"U+2022", " ", "a">>,
     <<"-", " ", "a">>,
     <<"-", "a">>,
     <<"1", ".", " ", "a">>,
     <<"1", "a">>,
     <<"(", "2", ")", "a">>,
     <<"U+2460", "a">>,
     <<"U+2022", " ", "-", " ", "a">>,
     <<"1", ".", " ", "(", "2", ")", " ", "a">>,
     Repeat("a", EmphasisLimit - 1),
     Repeat("a", EmphasisLimit)}

\* documents of one line: every text above in body size, in heading size and
\* without a size, bold or not
ClassifyInput ==
    /\ \E t \in ClassifyTexts, size \in {None, Some(10), Some(15)}, bold \in BOOLEAN :
        pdf = <<Page(<<Line(t, size, bold)>>, <<>>)>>
    /\ body_size = Some(10)

\* documents of one line "a" whose size runs through every ratio to the body
\* size from 0.9 to 1.55 in steps of 0.05 (body 20) and 0.1 (body 10)
SizeInput ==
    \E size \in {None} \cup {Some(n) : n \in 9..31}, body \in {10, 20} :
        /\ pdf = <<Page(<<Line(<<"a">>, size, FALSE)>>, <<>>)>>
        /\ body_size = Some(body)

\* the most characters of a document of characters
MaxChars == 3

\* the most pages of a document of empty pages
MaxEmptyPages == 3

\* the sequence s of characters cut into Len(cuts) + 1 pages without tables;
\* extract_text() returns the characters of the page, one line for each
PageCharsOf(s, cuts) ==
    LET edge == <<0>> \o cuts \o <<Len(s)>>
        part(k) == SubSeq(s, edge[k] + 1, edge[k + 1])
    IN  [k \in 1..(Len(cuts) + 1) |->
            RawPage(part(k), Some(Join([j \in 1..Len(part(k)) |-> <<part(k)[j].text>>], <<"\n">>)),
                    <<>>, <<>>, <<>>)]

\* sizes of characters: none, 0, two sizes that round to 12.0, and 18
CharSizes == {None, Some(0), Some(1196), Some(1204), Some(1800)}

\* documents of at most MaxChars characters "a" of every size, one on each
\* line, on 1 to MaxPages pages
SizedInput ==
    \E k \in 0..MaxChars, n \in 0..(MaxPages - 1) :
        \E sz \in [1..k -> CharSizes], c \in CutsOf(k, n) :
            pdf = PageCharsOf([j \in 1..k |-> Char("a", sz[j], 100 * j, 0, <<"R">>)], c)

\* font names: one without "bold" and three that spell it differently
FontNames ==
    {<<"R">>,
     <<"X", "-", "B", "o", "l", "d">>,
     <<"b", "o", "l", "d", "M", "T">>,
     <<"B", "O", "L", "D">>}

\* documents of one page of one line of 1 to MaxChars characters, letters
\* and blanks, of every font name
FontInput ==
    \E k \in 1..MaxChars :
        \E fn \in [1..k -> FontNames], tx \in [1..k -> {"a", " "}] :
            pdf = <<RawPage([j \in 1..k |-> Char(tx[j], Some(1200), 100, j, fn[j])],
                            Some(tx), <<>>, <<>>, <<>>)>>

\* tops of characters, in tenths: 104 and 105 round to 10, 115 to 12, 300 to 30
CharTops == {104, 105, 115, 300}

\* the table of one cell "t"
OneCellTable == <<<<Some(<<"t">>)>>>>

\* the height of the bbox of a table of the documents, in tenths
TableHeight == 200

\* documents of one page of 1 to MaxChars characters of every top and two
\* x0, with no table or one table, from 0.0 to 20.0 or from 20.0 to 40.0;
\* the characters are "a", "b", ..., and "t", the text of the table's cell,
\* where the top of the character lies within the table
LayoutInput ==
    \E k \in 1..MaxChars :
        \E top \in [1..k -> CharTops], x0 \in [1..k -> {0, 1}],
           tops \in {<<>>, <<0>>, <<200>>} :
            LET in_table(j) == \E n \in 1..Len(tops) :
                                  tops[n] <= top[j] /\ top[j] <= tops[n] + TableHeight
                glyph(j) == IF in_table(j) THEN "t" ELSE <<"a", "b", "c", "d">>[j]
            IN  pdf = <<RawPage([j \in 1..k |->
                                    Char(glyph(j), Some(1200), top[j], x0[j], <<"R">>)],
                                Some(<<"a">>),
                                [j \in 1..Len(tops) |-> OneCellTable], tops,
                                [n \in 1..Len(tops) |-> tops[n] + TableHeight])>>

\* texts of pages without characters: none, empty, blank, of one line with
\* and without a list prefix, and of several lines
PlainTexts ==
    {None,
     Some(<<>>),
     Some(<<" ">>),
     Some(<<"a">>),
     Some(<<"U+2022", " ", "a">>),
     Some(<<"1", ".", " ", "a">>),
     Some(<<" ", "a", " ", "\n", "\n", " ", "\n", "b">>),
     Some(<<"a", "\n", "-", " ", "b", "\n", "c">>)}

\* documents of one page without characters, with every text above
PlainInput ==
    \E t \in PlainTexts : pdf = <<RawPage(<<>>, t, <<>>, <<>>, <<>>)>>

\* documents of 0 to MaxEmptyPages pages without characters, text or tables
EmptyInput ==
    \E n \in 0..MaxEmptyPages :
        \E t \in [1..n -> {None, Some(<<>>)}] :
            pdf = [k \in 1..n |-> RawPage(<<>>, t[k], <<>>, <<>>, <<>>)]

\* documents of characters: their body size is the one estimated from them
CharInput ==
    /\ \/ SizedInput
       \/ FontInput
       \/ LayoutInput
       \/ PlainInput
       \/ EmptyInput
    /\ body_size = Some(estimate_body_size(pdf))

-----
(* The conversion, step by step *)

\* no slide is being made
DeckIdle ==
    /\ slide_data = None
    /\ content_lines = <<>>
    /\ line_i = 0
    /\ iterations = 0
    /\ elements = <<>>
    /\ is_title_slide = FALSE
    /\ idx = 0
    /\ y_pos = 0
    /\ shapes = <<>>
    /\ deck_pc = "idle"

Init ==
    /\ \/ TextInput
       \/ TableInput
       \/ ClassifyInput
       \/ SizeInput
       \/ CharInput
    /\ page_num = 0
    /\ pc = "next_page"
    /\ tbl = 0
    /\ lines = <<>>
    /\ ln = 0
    /\ current_list_type = "None"
    /\ numbered_counter = 0
    /\ paragraph_lines = <<>>
    /\ md_parts = <<>>
    /\ page_parts = <<>>
    /\ md_output = <<>>
    /\ result = None
    /\ DeckIdle

\* the page process_page is working on
page == pdf[page_num]

\* the line the loop over lines is at
line_info == lines[ln + 1]

\* convert_pdf_to_markdown calls process_page on the next page: md_parts = []
BeginPage ==
    /\ pc = "next_page"
    /\ page_num < Len(pdf)
    /\ page_num' = page_num + 1
    /\ md_parts' = <<>>
    /\ tbl' = 0
    /\ pc' = "tables"
    /\ UNCHANGED <<pdf, body_size, lines, ln, current_list_type, numbered_counter,
                   paragraph_lines, page_parts, md_output, result>>
    /\ UNCHANGED deck_vars

\* for table in tables: a table whose Markdown is not empty gives a block
AppendTable ==
    /\ pc = "tables"
    /\ tbl < Len(page.tables)
    /\ table_to_markdown(page.tables[tbl + 1]) # <<>>
    /\ md_parts' = EmitBlock(md_parts, "table", table_to_markdown(page.tables[tbl + 1]))
    /\ tbl' = tbl + 1
    /\ UNCHANGED <<pdf, body_size, page_num, pc, lines, ln, current_list_type,
                   numbered_counter, paragraph_lines, page_parts, md_output, result>>
    /\ UNCHANGED deck_vars

\* for table in tables: a table whose Markdown is empty gives nothing
SkipTable ==
    /\ pc = "tables"
    /\ tbl < Len(page.tables)
    /\ table_to_markdown(page.tables[tbl + 1]) = <<>>
    /\ tbl' = tbl + 1
    /\ UNCHANGED <<pdf, body_size, page_num, pc, lines, ln, current_list_type,
                   numbered_counter, paragraph_lines, md_parts, page_parts,
                   md_output, result>>
    /\ UNCHANGED deck_vars

\* lines = extract_text_with_formatting(page, body_size), then the three locals
ExtractText ==
    /\ pc = "tables"
    /\ tbl = Len(page.tables)
    /\ lines' = extract_text_with_formatting(page)
    /\ ln' = 0
    /\ current_list_type' = FreshLocals.current_list_type
    /\ numbered_counter' = FreshLocals.numbered_counter
    /\ paragraph_lines' = FreshLocals.paragraph_lines
    /\ pc' = "lines"
    /\ UNCHANGED <<pdf, body_size, page_num, tbl, md_parts, page_parts, md_output, result>>
    /\ UNCHANGED deck_vars

\* if heading_level: flush the paragraph, leave the list, emit the heading
OnHeading ==
    /\ pc = "lines"
    /\ ln < Len(lines)
    /\ Branch(line_info, body_size) = "heading"
    /\ md_parts' = EmitBlock(FlushParagraph(md_parts, paragraph_lines), "heading",
                             Repeat("#", get_heading_level(line_info.font_size, body_size))
                                \o <<" ">> \o line_info.text)
    /\ paragraph_lines' = <<>>
    /\ current_list_type' = "None"
    /\ ln' = ln + 1
    /\ UNCHANGED <<pdf, body_size, page_num, pc, tbl, lines, numbered_counter,
                   page_parts, md_output, result>>
    /\ UNCHANGED deck_vars

\* if is_bullet_list(text): flush the paragraph, emit the bullet item
OnBullet ==
    /\ pc = "lines"
    /\ ln < Len(lines)
    /\ Branch(line_info, body_size) = "bullet"
    /\ md_parts' = EmitBlock(FlushParagraph(md_parts, paragraph_lines), "bullet",
                             <<"-", " ">> \o clean_bullet_text(line_info.text))
    /\ paragraph_lines' = <<>>
    /\ current_list_type' = "bullet"
    /\ ln' = ln + 1
    /\ UNCHANGED <<pdf, body_size, page_num, pc, tbl, lines, numbered_counter,
                   page_parts, md_output, result>>
    /\ UNCHANGED deck_vars

\* if is_numbered_list(text): flush the paragraph, count, emit the numbered item
OnNumbered ==
    /\ pc = "lines"
    /\ ln < Len(lines)
    /\ Branch(line_info, body_size) = "numbered"
    /\ numbered_counter' = NextNumber(current_list_type, numbered_counter)
    /\ md_parts' = EmitBlock(FlushParagraph(md_parts, paragraph_lines), "numbered",
                             IntStr(numbered_counter') \o <<".", " ">>
                                \o clean_numbered_text(line_info.text))
    /\ paragraph_lines' = <<>>
    /\ current_list_type' = "numbered"
    /\ ln' = ln + 1
    /\ UNCHANGED <<pdf, body_size, page_num, pc, tbl, lines, page_parts, md_output, result>>
    /\ UNCHANGED deck_vars

\* a short bold line: leave the list, flush the paragraph, emit the emphasis
OnBold ==
    /\ pc = "lines"
    /\ ln < Len(lines)
    /\ Branch(line_info, body_size) = "bold"
    /\ md_parts' = EmitBlock(FlushParagraph(md_parts, paragraph_lines), "bold",
                             <<"*", "*">> \o line_info.text \o <<"*", "*">>)
    /\ paragraph_lines' = <<>>
    /\ current_list_type' = "None"
    /\ ln' = ln + 1
    /\ UNCHANGED <<pdf, body_size, page_num, pc, tbl, lines, numbered_counter,
                   page_parts, md_output, result>>
    /\ UNCHANGED deck_vars

\* any other line: leave the list, paragraph_lines.append(text)
OnParagraph ==
    /\ pc = "lines"
    /\ ln < Len(lines)
    /\ Branch(line_info, body_size) = "paragraph"
    /\ paragraph_lines' = Append(paragraph_lines, line_info.text)
    /\ current_list_type' = "None"
    /\ ln' = ln + 1
    /\ UNCHANGED <<pdf, body_size, page_num, pc, tbl, lines, numbered_counter,
                   md_parts, page_parts, md_output, result>>
    /\ UNCHANGED deck_vars

\* after the loop: flush the paragraph and return md_parts
EndPage ==
    /\ pc = "lines"
    /\ ln = Len(lines)
    /\ md_parts' = FlushParagraph(md_parts, paragraph_lines)
    /\ page_parts' = Append(page_parts, md_parts')
    /\ pc' = "compose"
    /\ UNCHANGED <<pdf, body_size, page_num, tbl, lines, ln, current_list_type,
                   numbered_counter, paragraph_lines, md_output, result>>
    /\ UNCHANGED deck_vars

\* convert_pdf_to_markdown appends the page's blocks to md_output
Compose ==
    /\ pc = "compose"
    /\ md_output' = ComposePage(md_output, md_parts, page_num, Len(pdf))
    /\ pc' = "next_page"
    /\ UNCHANGED <<pdf, body_size, page_num, tbl, lines, ln, current_list_type,
                   numbered_counter, paragraph_lines, md_parts, page_parts, result>>
    /\ UNCHANGED deck_vars

\* return '\n'.join(md_output)
Finish ==
    /\ pc = "next_page"
    /\ page_num = Len(pdf)
    /\ result' = Some(Join(md_output, <<"\n">>))
    /\ pc' = "done"
    /\ UNCHANGED <<pdf, body_size, page_num, tbl, lines, ln, current_list_type,
                   numbered_counter, paragraph_lines, md_parts, page_parts, md_output>>
    /\ UNCHANGED deck_vars

Next ==
    \/ BeginPage
    \/ AppendTable
    \/ SkipTable
    \/ ExtractText
    \/ OnHeading
    \/ OnBullet
    \/ OnNumbered
    \/ OnBold
    \/ OnParagraph
    \/ EndPage
    \/ Compose
    \/ Finish

Spec == Init /\ [][Next]_vars

----------------------------------------------------------------------------
(* Vocabulary of the properties *)

\* the classification of every line of ls
Kinds(ls) == [j \in 1..Len(ls) |-> Branch(ls[j], body_size)]

\* the positions of ls, in order, whose classification is in K
RECURSIVE PositionsFrom(_, _, _)
PositionsFrom(ls, K, j) ==
    IF j > Len(ls) THEN <<>>
    ELSE IF Kinds(ls)[j] \in K THEN <<j>> \o PositionsFrom(ls, K, j + 1)
    ELSE PositionsFrom(ls, K, j + 1)

Positions(ls, K) == PositionsFrom(ls, K, 1)

\* the blocks of parts, in order, whose kind is in K
BlocksOf(parts, K) ==
    LET InK(part) == part[1] \in K
    IN  SelectSeq(parts, InK)

\* the kinds of the blocks of parts
BlockKinds(parts) == [n \in 1..Len(parts) |-> parts[n][1]]

\* the place of line j in its maximal run of lines of classification kind
RunPosition(ls, j, kind) ==
    j - Max({0} \cup {k \in 1..(j - 1) : Kinds(ls)[k] # kind})

StartsWith(t, prefix) ==
    Len(t) >= Len(prefix) /\ SubSeq(t, 1, Len(prefix)) = prefix

EndsWith(t, suffix) ==
    Len(t) >= Len(suffix) /\ SubSeq(t, Len(t) - Len(suffix) + 1, Len(t)) = suffix

TextKinds == {"heading", "bullet", "numbered", "bold", "paragraph"}

ItemKinds == {"heading", "bullet", "numbered", "bold"}

\* process_page has just returned md_parts for the lines of page page_num
PageReturned == pc = "compose"

----------------------------------------------------------------------------
(* C1: when process_page returns for a page, the numbered blocks are the    *)
(* page's Numbered lines in order, and the block of a Numbered line         *)
(* carries as ordinal the line's place (1, 2, 3, ...) in its maximal run of *)
(* consecutive Numbered lines, not the numeral of the line: a line of any   *)
(* other classification between two Numbered lines starts the count again.  *)
C1_OrdinalsCountRuns ==
    PageReturned =>
        LET ls == lines
            at == Positions(ls, {"numbered"})
            blocks == BlocksOf(md_parts, {"numbered"})
        IN  /\ Len(blocks) = Len(at)
            /\ \A n \in 1..Len(at) :
                blocks[n][2] = IntStr(RunPosition(ls, at[n], "numbered")) \o <<".", " ">>
                                  \o clean_numbered_text(ls[at[n]].text)

\* a page of three Numbered lines, each with the numeral 7, got ordinals 1, 2, 3
C1_Witness ==
    /\ pc = "compose"
    /\ [j \in 1..Len(lines) |-> lines[j].text[1]] = <<"7", "7", "7">>
    /\ md_parts = <<<<"numbered", <<"1", ".", " ", "y">>>>,
                    <<"numbered", <<"2", ".", " ", "y">>>>,
                    <<"numbered", <<"3", ".", " ", "y">>>>>>

----------------------------------------------------------------------------
(* C2: nothing of the reassembly is carried from one page to the next.     *)
(* When process_page returns for a page, the first page or a later one,    *)
(* the first numbered block has ordinal 1 whatever the page before ended   *)
(* with; a page whose last line is a Paragraph line ends with a paragraph  *)
(* block that ends with that line, and a page whose first line is a        *)
(* Paragraph line starts its text blocks with a paragraph block that       *)
(* starts with that line.                                                  *)
C2_NoStateAcrossPages ==
    PageReturned =>
        LET ls == lines
            numbered == BlocksOf(md_parts, {"numbered"})
            text == BlocksOf(md_parts, TextKinds)
        IN  /\ numbered # <<>> => StartsWith(numbered[1][2], <<"1", ".", " ">>)
            /\ (ls # <<>> /\ Kinds(ls)[Len(ls)] = "paragraph") =>
                    /\ text # <<>>
                    /\ text[Len(text)][1] = "paragraph"
                    /\ EndsWith(text[Len(text)][2], ls[Len(ls)].text)
            /\ (ls # <<>> /\ Kinds(ls)[1] = "paragraph") =>
                    /\ text # <<>>
                    /\ text[1][1] = "paragraph"
                    /\ StartsWith(text[1][2], ls[1].text)

\* page one ended inside a numbered run and page two, which starts with a
\* Numbered line, has been returned with ordinal 1 on it
C2_Witness ==
    /\ Len(page_parts) = 2
    /\ Kinds(extract_text_with_formatting(pdf[1])) = <<"numbered", "numbered">>
    /\ Kinds(extract_text_with_formatting(pdf[2])) = <<"numbered">>
    /\ page_parts[2] = <<<<"numbered", <<"1", ".", " ", "y">>>>>>

----------------------------------------------------------------------------
(* C3: when process_page returns for a page, every maximal run of          *)
(* consecutive Paragraph lines gave exactly one paragraph block, the texts  *)
(* of the run in order joined by single spaces, and the block stands where *)
(* the run stands among the blocks of the other lines.                     *)

\* the first positions of the maximal runs of Paragraph lines of ls, in order
RunStarts(ls) ==
    LET IsStart(j) == j = 1 \/ Kinds(ls)[j - 1] # "paragraph"
    IN  SelectSeq(Positions(ls, {"paragraph"}), IsStart)

\* the last position of the run of Paragraph lines that starts at a
RunEnd(ls, a) ==
    Max({e \in a..Len(ls) : \A j \in a..e : Kinds(ls)[j] = "paragraph"})

C3_OneParagraphPerRun ==
    PageReturned =>
        LET ls == lines
            starts == RunStarts(ls)
            blocks == BlocksOf(md_parts, {"paragraph"})
            keep == SelectSeq(Positions(ls, TextKinds),
                              LAMBDA j : Kinds(ls)[j] # "paragraph" \/ j = 1
                                         \/ Kinds(ls)[j - 1] # "paragraph")
        IN  /\ Len(blocks) = Len(starts)
            /\ \A n \in 1..Len(starts) :
                blocks[n][2] =
                    Join([i \in 1..(RunEnd(ls, starts[n]) - starts[n] + 1) |->
                            ls[starts[n] + i - 1].text], <<" ">>)
            /\ BlockKinds(BlocksOf(md_parts, TextKinds))
                = [n \in 1..Len(keep) |-> Kinds(ls)[keep[n]]]

\* a page of the Paragraph lines p and q and then a heading was returned as
\* the paragraph "p q" and the heading
C3_Witness ==
    /\ pc = "compose"
    /\ Len(lines) = 3
    /\ md_parts = <<<<"paragraph", <<"p", " ", "q">>>>, <<"heading", <<"#", " ", "T">>>>>>

----------------------------------------------------------------------------
(* C4: when process_page returns for a page, the heading, bullet,          *)
(* numbered and bold blocks are, one for one and in order, the page's      *)
(* Heading, Bullet, Numbered and Emphasized lines: each has the kind of    *)
(* its line and carries the text of its line, so their number is the       *)
(* number of lines that are not Paragraph lines.                           *)

\* the text a line leaves in its block
ItemText(line) ==
    CASE Branch(line, body_size) = "bullet" -> clean_bullet_text(line.text)
      [] Branch(line, body_size) = "numbered" -> clean_numbered_text(line.text)
      [] Branch(line, body_size) = "bold" -> line.text \o <<"*", "*">>
      [] OTHER -> line.text

C4_OneBlockPerItemLine ==
    PageReturned =>
        LET ls == lines
            at == Positions(ls, ItemKinds)
            blocks == BlocksOf(md_parts, ItemKinds)
        IN  /\ Len(blocks) = Len(at)
            /\ \A n \in 1..Len(at) :
                /\ blocks[n][1] = Kinds(ls)[at[n]]
                /\ EndsWith(blocks[n][2], ItemText(ls[at[n]]))

\* a page of two headings of one level and a bullet item was returned as
\* three blocks
C4_Witness ==
    /\ pc = "compose"
    /\ Kinds(lines) = <<"heading", "heading", "bullet">>
    /\ md_parts = <<<<"heading", <<"#", " ", "T">>>>, <<"heading", <<"#", " ", "T">>>>,
                    <<"bullet", <<"-", " ", "b">>>>>>

----------------------------------------------------------------------------
(* Vocabulary of the properties of tables *)

\* process_page has visited every table of the page and not yet its text
TablesDone == pc = "tables" /\ tbl = Len(page.tables)

\* the tables of the page that have a header row with a cell
WithHeader ==
    LET HasHeader(table) == table # <<>> /\ table[1] # <<>>
    IN  SelectSeq(page.tables, HasHeader)

\* the number of occurrences of the character c in t
Count(t, c) == Cardinality({j \in 1..Len(t) : t[j] = c})

\* the pieces of t between the occurrences of the character c
RECURSIVE SplitAt(_, _)
SplitAt(t, c) ==
    LET hits == {j \in 1..Len(t) : t[j] = c}
    IN  IF hits = {} THEN <<t>>
        ELSE <<SubSeq(t, 1, Min(hits) - 1)>> \o SplitAt(Drop(t, Min(hits)), c)

\* the pieces of t between the occurrences of the delimiter " | "
RECURSIVE SplitCells(_)
SplitCells(t) ==
    LET hits == {j \in 1..(Len(t) - 2) : SubSeq(t, j, j + 2) = <<" ", "|", " ">>}
    IN  IF hits = {} THEN <<t>>
        ELSE <<SubSeq(t, 1, Min(hits) - 1)>> \o SplitCells(Drop(t, Min(hits) + 2))

\* the cells of a line of a fragment: what stands between the leading "| "
\* and the trailing " |", cut at every " | "
ReadRow(row) ==
    LET cells == SplitCells(SubSeq(row, 3, Len(row) - 2))
    IN  [j \in 1..Len(cells) |-> Some(cells[j])]

\* the logical grid of a fragment: the cells of its first line (the header row)
\* and of its lines from the third on (the data rows); the second line, the
\* separator row, is left out
ReadGrid(fragment) ==
    LET rows == SplitAt(fragment, "\n")
    IN  [r \in 1..(Len(rows) - 1) |-> ReadRow(rows[IF r = 1 THEN 1 ELSE r + 1])]

----------------------------------------------------------------------------
----------------------------------------------------------------------------
(* C6: every row table_to_markdown renders (the header line, the separator *)
(* line and every data line) has as many cells as the header row: a data   *)
(* row of fewer cells than the header row is rendered with empty cells in  *)
(* the place of the missing ones.  A rendered row holds one cell more than *)
(* it holds " | " delimiters, that is, one fewer than it holds "|".  The   *)
(* tables looked at are those no row of which is longer than the header.  *)
C6_RowsHaveHeaderWidth ==
    TablesDone =>
        \A n \in 1..Len(WithHeader) :
            LET table == WithHeader[n]
                rows == table_md_lines(table)
            IN  (\A r \in 1..Len(table) : Len(table[r]) <= Len(table[1])) =>
                    /\ BlocksOf(md_parts, {"table"})[n][2] = Join(rows, <<"\n">>)
                    /\ \A r \in 1..Len(rows) :
                        Count(rows[r], "|") - 1 = Len(table[1])

----------------------------------------------------------------------------
(* C7: the fragment of a table of R rows has exactly R + 1 lines, whatever *)
(* line breaks its cells hold, those of the header row included.           *)
C7_OneLinePerRow ==
    TablesDone =>
        \A n \in 1..Len(WithHeader) :
            Len(SplitAt(BlocksOf(md_parts, {"table"})[n][2], "\n"))
                = Len(WithHeader[n]) + 1

----------------------------------------------------------------------------
(* C8: serializing the logical grid read back from a fragment gives the    *)
(* fragment again.                                                         *)
C8_ReserializingIsIdentity ==
    TablesDone =>
        \A n \in 1..Len(WithHeader) :
            LET fragment == BlocksOf(md_parts, {"table"})[n][2]
            IN  table_to_markdown(ReadGrid(fragment)) = fragment

----------------------------------------------------------------------------
(* C9: the heading level of a line follows from the ratio of its size to   *)
(* the body size by the thresholds 1.5, 1.3 and 1.15, each inclusive: the  *)
(* level is 1 when the ratio reaches all three, 2 when it reaches 1.3 and  *)
(* 1.15 only, 3 when it reaches 1.15 only, and the line is no heading when *)
(* it reaches none or has no size.  A line that is a heading of level n is *)
(* returned as a heading block that starts with n "#" and a space; a       *)
(* missing size or body size gives no level.                               *)

\* the thresholds, as pairs <<numerator, denominator>>
Thresholds == {<<3, 2>>, <<13, 10>>, <<23, 20>>}

\* the thresholds the ratio font / body reaches
Reached(font, body) == {th \in Thresholds : th[2] * font >= th[1] * body}

\* the level by the thresholds reached: 0 for no heading
LevelByRatio(font_size) ==
    IF font_size.none \/ Reached(font_size.val, body_size.val) = {} THEN 0
    ELSE 4 - Cardinality(Reached(font_size.val, body_size.val))

\* the number of "#" a heading block starts with before its space
MarksOf(content) == SkipWhile(content, 1, {"#"}) - 1

C9_LevelByInclusiveThresholds ==
    /\ get_heading_level(Some(18), None) = 0
    /\ get_heading_level(None, None) = 0
    /\ (PageReturned /\ Len(lines) = 1) =>
        LET level == LevelByRatio(lines[1].font_size)
            blocks == BlocksOf(md_parts, TextKinds)
        IN  /\ Len(blocks) = 1
            /\ blocks[1][1] = "heading" <=> level # 0
            /\ level # 0 =>
                /\ MarksOf(blocks[1][2]) = level
                /\ blocks[1][2][level + 1] = " "

\* a line of size 23 on a body size of 20, the ratio 1.15 exactly, was
\* returned as a heading of level 3
C9_Witness ==
    /\ PageReturned
    /\ body_size = Some(20)
    /\ lines = <<Line(<<"a">>, Some(23), FALSE)>>
    /\ md_parts = <<<<"heading", <<"#", "#", "#", " ", "a">>>>>>

----------------------------------------------------------------------------
(* C10: a line gets one classification, by the first test that succeeds in *)
(* the order heading, bullet, numbered, emphasis, paragraph.  A page of    *)
(* one line is returned as one text block: a heading block holding the     *)
(* line's text unchanged, list prefix included, when the line has a        *)
(* heading level; else a bullet block when a bullet pattern matches,       *)
(* whether or not a numbered pattern matches too; else a numbered block    *)
(* when a numbered pattern matches; else a bold block exactly when the     *)
(* line is bold and shorter than 100 characters, and a paragraph block     *)
(* otherwise.                                                              *)
C10_FirstMatchDecides ==
    (PageReturned /\ Len(lines) = 1) =>
        LET line == lines[1]
            blocks == BlocksOf(md_parts, TextKinds)
            kind == blocks[1][1]
            level == get_heading_level(line.font_size, body_size)
            listed == is_bullet_list(line.text) \/ is_numbered_list(line.text)
        IN  /\ Len(blocks) = 1
            /\ level # 0 =>
                /\ kind = "heading"
                /\ blocks[1][2] = Repeat("#", level) \o <<" ">> \o line.text
            /\ (level = 0 /\ is_bullet_list(line.text)) => kind = "bullet"
            /\ (level = 0 /\ ~is_bullet_list(line.text) /\ is_numbered_list(line.text)) =>
                kind = "numbered"
            /\ (level = 0 /\ ~listed) =>
                /\ kind = "bold" <=> (line.is_bold /\ Len(line.text) < EmphasisLimit)
                /\ kind # "bold" =>
                    (kind = "paragraph" /\ blocks[1][2] = line.text)

\* a bold line of heading size that starts with a bullet glyph was returned
\* as a heading that keeps the glyph
C10_Witness ==
    /\ PageReturned
    /\ lines = <<Line(<<"U+2022", " ", "a">>, Some(15), TRUE)>>
    /\ md_parts = <<<<"heading", <<"#", " ", "U+2022", " ", "a">>>>>>

----------------------------------------------------------------------------
(* C11: the body size every page of a document is classified with is one   *)
(* value found from the characters of all its pages together: a size,      *)
(* rounded to one decimal, of a character that carries a size, such that   *)
(* no other rounded size is carried by strictly more characters of the     *)
(* document; it is 12 points when no character of any page carries a size. *)

\* the document is one of pages of characters
RawDocument == pdf # <<>> /\ \A k \in 1..Len(pdf) : "chars" \in DOMAIN pdf[k]

\* the characters of the document that carry a size, as <<page, place>>
SizedChars ==
    {at \in UNION {{<<k, j>> : j \in 1..Len(pdf[k].chars)} : k \in 1..Len(pdf)} :
        /\ ~pdf[at[1]].chars[at[2]].size.none
        /\ pdf[at[1]].chars[at[2]].size.val # 0}

\* the size of the character at a place, to the nearest tenth of a point
RoundedSize(at) ==
    LET s == pdf[at[1]].chars[at[2]].size.val
    IN  CHOOSE r \in {10 * (s \div 10), 10 * (s \div 10) + 10} : r - s < 5 /\ s - r < 5

\* the number of characters of the document whose rounded size is v
CharsOfSize(v) == Cardinality({at \in SizedChars : RoundedSize(at) = v})

C11_BodySizeIsPooledMode ==
    RawDocument =>
        IF SizedChars = {} THEN body_size = Some(Points(DefaultBodySize))
        ELSE \E at \in SizedChars :
                /\ body_size = Some(RoundedSize(at))
                /\ \A other \in SizedChars :
                    CharsOfSize(RoundedSize(other)) <= CharsOfSize(RoundedSize(at))

\* the second page of a document has been read whose first page has one
\* character, of 18 points, and whose second page has two, of 11.96 and
\* 12.04 points: the body size is 12.0
C11_Witness ==
    /\ RawDocument
    /\ PageReturned
    /\ page_num = 2
    /\ sizes_of(pdf[1].chars) = <<1800>>
    /\ sizes_of(pdf[2].chars) = <<1196, 1204>>
    /\ body_size = Some(1200)

----------------------------------------------------------------------------
(* C12: within the blocks of one page, convert_pdf_to_markdown puts one    *)
(* blank line before a block exactly when the block has a predecessor on   *)
(* the page of another kind and is a heading, a paragraph or a table; it   *)
(* puts none before a bullet, numbered or bold block, nor between two      *)
(* blocks of the same kind.  The lines of md_output for a page are its     *)
(* blocks in order and those blank lines, nothing else.                    *)

\* the pages whose blocks convert_pdf_to_markdown has appended to md_output
Composed == IF pc \in {"next_page", "done"} THEN page_num ELSE page_num - 1

\* block k of parts is to be preceded by a blank line
Separated(parts, k) ==
    /\ k > 1
    /\ parts[k - 1][1] # parts[k][1]
    /\ parts[k][1] \in {"heading", "paragraph", "table"}

\* the place of block k among the lines of its page
Place(parts, k) == k + Cardinality({j \in 1..k : Separated(parts, j)})

\* the number of lines of a page
PageLength(parts) == IF parts = <<>> THEN 0 ELSE Place(parts, Len(parts))

\* the lines of md_output before those of page p: the pages before it, each
\* followed by one line
RECURSIVE PageStart(_)
PageStart(p) ==
    IF p = 1 THEN 0 ELSE PageStart(p - 1) + PageLength(page_parts[p - 1]) + 1

C12_BlankBeforeChangedKind ==
    \A p \in 1..Composed :
        LET parts == page_parts[p]
            at == PageStart(p)
        IN  /\ Len(md_output) >= at + PageLength(parts)
            /\ \A k \in 1..Len(parts) :
                /\ md_output[at + Place(parts, k)] = parts[k][2]
                /\ Separated(parts, k) => md_output[at + Place(parts, k) - 1] = <<>>

\* a page of a heading, a bullet item and a paragraph has been appended: no
\* blank line before the item, one before the paragraph
C12_Witness ==
    /\ pc = "next_page"
    /\ page_parts = <<<<<<"heading", <<"#", " ", "T">>>>,
                        <<"bullet", <<"-", " ", "b">>>>,
                        <<"paragraph", <<"p">>>>>>>>
    /\ md_output = <<<<"#", " ", "T">>, <<"-", " ", "b">>, <<>>, <<"p">>>>

----------------------------------------------------------------------------
(* C13: md_output, the lines convert_pdf_to_markdown joins into the        *)
(* document, holds the lines of the pages in page order; the lines of      *)
(* each page but the last are followed by exactly one blank line, after    *)
(* which the lines of the next page begin, and nothing follows the lines   *)
(* of the last page.                                                       *)

\* the lines of md_output that are the blocks of page p, in order
PageBlockLines(p) ==
    [k \in 1..Len(page_parts[p]) |->
        md_output[PageStart(p) + Place(page_parts[p], k)]]

C13_OneBlankLineBetweenPages ==
    Composed >= 1 =>
        /\ Len(md_output) =
            PageStart(Composed) + PageLength(page_parts[Composed])
                + (IF Composed < Len(pdf) THEN 1 ELSE 0)
        /\ \A p \in 1..Composed :
            /\ PageBlockLines(p) = [k \in 1..Len(page_parts[p]) |-> page_parts[p][k][2]]
            /\ p < Len(pdf) => md_output[PageStart(p) + PageLength(page_parts[p]) + 1] = <<>>

\* a document of two pages, a paragraph each, has been converted: one blank
\* line between the two paragraphs and none after the second
C13_Witness ==
    /\ pc = "done"
    /\ Len(pdf) = 2
    /\ md_output = <<<<"p">>, <<>>, <<"q">>>>
    /\ result = Some(<<"p", "\n", "\n", "q">>)

----------------------------------------------------------------------------
(* C14: when process_page returns for a page that has text but no          *)
(* characters, every line read from the page has no size and is not bold,  *)
(* and every block made from its lines is a paragraph block: there is no   *)
(* heading, bullet, numbered or bold block, whatever the text.             *)

\* the page being processed is one of characters that has none, but text
PlainTextPage ==
    /\ RawDocument
    /\ page_num >= 1
    /\ page.chars = <<>>
    /\ ~page.text.none
    /\ page.text.val # <<>>

C14_PlainTextGivesParagraphsOnly ==
    (PageReturned /\ PlainTextPage) =>
        /\ \A j \in 1..Len(lines) : lines[j].font_size = None /\ ~lines[j].is_bold
        /\ \A k \in 1..Len(md_parts) :
            md_parts[k][1] \in TextKinds => md_parts[k][1] = "paragraph"

----------------------------------------------------------------------------
(* C15: a line built from the characters of a page is bold if and only if  *)
(* the font name of at least one of its characters contains "bold" in any  *)
(* casing: "Bold", "bold", "BOLD" and every other casing count.            *)

\* a letter of a font name in lower case
LowerCase(c) ==
    IF c = "B" THEN "b"
    ELSE IF c = "O" THEN "o"
    ELSE IF c = "L" THEN "l"
    ELSE IF c = "D" THEN "d"
    ELSE c

\* the font name contains "bold", compared without regard to case
NamesBold(fn) ==
    \E k \in 1..(Len(fn) - 3) :
        [j \in 1..4 |-> LowerCase(fn[k + j - 1])] = <<"b", "o", "l", "d">>

\* the lines of the page being processed have been read from its
\* characters, which all lie on one line
OneLineOfChars ==
    /\ RawDocument
    /\ pc = "lines"
    /\ page.chars # <<>>
    /\ \A k \in 1..Len(page.chars) : page.chars[k].top = page.chars[1].top
    /\ Len(lines) = 1

C15_BoldInAnyCasing ==
    OneLineOfChars =>
        (lines[1].is_bold <=>
            \E k \in 1..Len(page.chars) : NamesBold(page.chars[k].fontname))

----------------------------------------------------------------------------
(* C16: for a document of zero, one or several pages, each without         *)
(* characters, text and tables, convert_pdf_to_markdown returns the empty  *)
(* string.                                                                 *)

\* every page of the document is empty
EmptyDocument ==
    \A k \in 1..Len(pdf) :
        /\ "chars" \in DOMAIN pdf[k]
        /\ pdf[k].chars = <<>>
        /\ pdf[k].tables = <<>>
        /\ (pdf[k].text.none \/ pdf[k].text.val = <<>>)

C16_EmptyInputGivesEmptyOutput ==
    (EmptyDocument /\ pc = "done") => result = Some(<<>>)

----------------------------------------------------------------------------
(* C17: the blocks process_page returns are in the order of the page from  *)
(* top to bottom.  On a page with one table and text above the top of the  *)
(* table, the text above gives a block before the table block, so the      *)
(* table block is not the first block.                                     *)

\* the page being processed has one table, which gives a block, and a
\* character other than a blank above the top of that table
TextAboveTable ==
    /\ RawDocument
    /\ page_num >= 1
    /\ Len(page.tables) = 1
    /\ table_to_markdown(page.tables[1]) # <<>>
    /\ \E k \in 1..Len(page.chars) :
        /\ page.chars[k].text # " "
        /\ page.chars[k].top < page.table_tops[1]

C17_BlocksInPageOrder ==
    (PageReturned /\ TextAboveTable) => md_parts[1][1] # "table"

----------------------------------------------------------------------------
(* C18: the text of a bullet or numbered item is the line without the one  *)
(* prefix that made it match, trimmed: what follows that prefix is kept,   *)
(* also when it looks like another list prefix (a "-" after a bullet       *)
(* glyph, "(2)" after "1.").  A page of one such line is returned as one   *)
(* block, "- " or "1. " followed by that text.                             *)

\* the number of characters of the prefix that makes t a list line: the
\* match of the first pattern that matches
MatchedPrefix(t) ==
    IF BulletPattern1(t) >= 0 THEN BulletPattern1(t)
    ELSE IF BulletPattern2(t) >= 0 THEN BulletPattern2(t)
    ELSE IF NumberedPattern1(t) >= 0 THEN NumberedPattern1(t)
    ELSE IF NumberedPattern2(t) >= 0 THEN NumberedPattern2(t)
    ELSE NumberedPattern3(t)

\* t without its first k characters and without blanks at either end
TrimmedAfter(t, k) ==
    LET rest == [j \in 1..(Len(t) - k) |-> t[k + j]]
        inner == {j \in 1..Len(rest) : rest[j] \notin Whitespace}
    IN  IF inner = {} THEN <<>>
        ELSE [j \in 1..(Max(inner) - Min(inner) + 1) |-> rest[Min(inner) + j - 1]]

C18_OnlyMatchedPrefixRemoved ==
    (/\ PageReturned
     /\ Len(lines) = 1
     /\ Branch(lines[1], body_size) \in {"bullet", "numbered"}) =>
        LET item == TrimmedAfter(lines[1].text, MatchedPrefix(lines[1].text))
        IN  md_parts =
                IF Branch(lines[1], body_size) = "bullet"
                THEN <<<<"bullet", <<"-", " ">> \o item>>>>
                ELSE <<<<"numbered", <<"1", ".", " ">> \o item>>>>

----------------------------------------------------------------------------
(***************************************************************************)
(* Model of src/markdown_to_pptx/simple_markdown_to_pptx.py: create_slide  *)
(* makes one slide from the content of one slide block, whose elements     *)
(* parse_markdown_elements reads line by line.                             *)
(***************************************************************************)

\* t.startswith(prefix)
startswith(t, prefix) ==
    Len(t) >= Len(prefix) /\ SubSeq(t, 1, Len(prefix)) = prefix

\* t.lstrip(chars) for the characters of S
lstrip(t, S) == Drop(t, SkipWhile(t, 1, S) - 1)

\* t.rstrip()
rstrip(t) ==
    LET keep == {j \in 1..Len(t) : t[j] \notin Whitespace}
    IN  IF keep = {} THEN <<>> ELSE SubSeq(t, 1, Max(keep))

\* c in t
has_char(t, c) == \E k \in 1..Len(t) : t[k] = c

\* [cell.strip() for cell in t.split('|')[1:-1]]
row_cells(t) ==
    LET parts == split(t, "|")
    IN  [k \in 1..(Len(parts) - 2) |-> Strip(parts[k + 1])]

\* re.match(r'^\|[\s\-:]+', t)
is_separator_row(t) ==
    Len(t) >= 2 /\ t[1] = "|" /\ t[2] \in Whitespace \cup {"-", ":"}

\* t.startswith('- ') or t.startswith('* ')
is_list_item(t) == startswith(t, <<"-", " ">>) \/ startswith(t, <<"*", " ">>)

\* re.match(r'^\d+\.\s', t)
is_numbered_item(t) ==
    LET j == SkipWhile(t, 1, Digits)
    IN  j > 1 /\ j + 1 <= Len(t) /\ t[j] = "." /\ t[j + 1] \in Whitespace

\* re.sub(r'^\d+\.\s+', '', t) for a t that is a numbered item
numbered_item_text(t) ==
    Drop(t, SkipWhile(t, SkipWhile(t, 1, Digits) + 1, Whitespace) - 1)

\* t.startswith of the code fence, three grave accents (U+0060)
is_fence(t) == startswith(t, <<"U+0060", "U+0060", "U+0060">>)

\* the first place from "from" on whose line fails ok, Len(ls) + 1 when all
\* pass: where a loop "while i < len(lines) and ok(lines[i])" stops
scan(ls, from, ok(_)) ==
    Min({k \in from..(Len(ls) + 1) : k = Len(ls) + 1 \/ ~ok(ls[k])})

\* the branch of the main loop a stripped line takes
line_kind(line) ==
    IF line = <<>> THEN "blank"
    ELSE IF startswith(line, <<"#">>) THEN "heading"
    ELSE IF startswith(line, <<">">>) THEN "quote"
    ELSE IF has_char(line, "|") THEN "table"
    ELSE IF is_list_item(line) THEN "list"
    ELSE IF is_numbered_item(line) THEN "numbered_list"
    ELSE IF is_fence(line) THEN "code"
    ELSE "text"

\* the elements parse_markdown_elements appends
heading_element(level, text) == [type |-> "heading", level |-> level, text |-> text]

quote_element(text) == [type |-> "quote", text |-> text]

table_element(data) == [type |-> "table", data |-> data]

list_element(type, items) == [type |-> type, items |-> items]

text_element(text) == [type |-> "text", text |-> text]

----------------------------------------------------------------------------
(* parse_markdown_elements, one iteration of its main loop at a time *)

\* line = lines[i].strip(): the line the main loop is at
current_line == Strip(content_lines[line_i + 1])

\* while i < len(lines): one more iteration, on a line of the given kind.
\* The iterations are counted up to one more than there are lines.
Iterate(kind) ==
    /\ deck_pc = "parse"
    /\ line_i < Len(content_lines)
    /\ iterations <= Len(content_lines)
    /\ line_kind(current_line) = kind
    /\ iterations' = iterations + 1
    /\ UNCHANGED <<slide_data, content_lines, is_title_slide, idx, y_pos, shapes, deck_pc>>
    /\ UNCHANGED vars

\* create_slide calls parse_markdown_elements(slide_content)
BeginParse ==
    /\ deck_pc = "start"
    /\ content_lines' = split(slide_data.content, "\n")
    /\ elements' = <<>>
    /\ line_i' = 0
    /\ deck_pc' = "parse"
    /\ UNCHANGED <<slide_data, iterations, is_title_slide, idx, y_pos, shapes>>
    /\ UNCHANGED vars

\* if not line: i += 1
ParseBlank ==
    /\ Iterate("blank")
    /\ line_i' = line_i + 1
    /\ UNCHANGED elements

\* a line that starts with "#": a heading of as many levels as it has "#"
ParseHeading ==
    /\ Iterate("heading")
    /\ elements' = Append(elements,
                          heading_element(SkipWhile(current_line, 1, {"#"}) - 1,
                                          Strip(lstrip(current_line, {"#"}))))
    /\ line_i' = line_i + 1

\* a line that starts with ">": the quote of all the lines that follow and
\* start with ">"
ParseQuote ==
    /\ Iterate("quote")
    /\ LET stop == scan(content_lines, line_i + 1,
                        LAMBDA l : startswith(Strip(l), <<">">>))
           quote_lines == [k \in 1..(stop - line_i - 1) |->
                              Strip(lstrip(Strip(content_lines[line_i + k]), {">"}))]
       IN  /\ elements' = Append(elements, quote_element(Join(quote_lines, <<"\n">>)))
           /\ line_i' = stop - 1

\* a line that holds "|" and has header cells: the header, a separator row
\* skipped, and the rows of the lines that follow and hold "|"
ParseTable ==
    /\ Iterate("table")
    /\ row_cells(current_line) # <<>>
    /\ LET first == line_i + 2
           data_from ==
               IF first <= Len(content_lines) /\ is_separator_row(content_lines[first])
               THEN first + 1 ELSE first
           stop == scan(content_lines, data_from, LAMBDA l : has_char(l, "|"))
           rows == [k \in 1..(stop - data_from) |->
                       row_cells(content_lines[data_from + k - 1])]
           table_rows == <<row_cells(current_line)>> \o SelectSeq(rows, LAMBDA r : r # <<>>)
       IN  /\ elements' = IF Len(table_rows) > 1
                          THEN Append(elements, table_element(table_rows))
                          ELSE elements
           /\ line_i' = stop - 1

\* a line that holds "|" and has no header cell: the body of "if header" is
\* not run and no other branch is taken, so i and elements stay as they are
ParseTableNoHeader ==
    /\ Iterate("table")
    /\ row_cells(current_line) = <<>>
    /\ UNCHANGED <<line_i, elements>>

\* a line that starts with "- " or "* ": the items of the lines from it on
\* that are list items (base_indent is 0, the line being stripped)
ParseList ==
    /\ Iterate("list")
    /\ LET stop == scan(content_lines, line_i + 1,
                        LAMBDA l : rstrip(l) # <<>> /\ is_list_item(Strip(rstrip(l))))
           items == [k \in 1..(stop - line_i - 1) |->
                        Strip(lstrip(Strip(rstrip(content_lines[line_i + k])), {"-", "*"}))]
       IN  /\ elements' = IF items # <<>>
                          THEN Append(elements, list_element("list", items))
                          ELSE elements
           /\ line_i' = stop - 1

\* a line that starts with a number, "." and a blank: the items of the lines
\* from it on that do
ParseNumbered ==
    /\ Iterate("numbered_list")
    /\ LET stop == scan(content_lines, line_i + 1, LAMBDA l : is_numbered_item(Strip(l)))
           items == [k \in 1..(stop - line_i - 1) |->
                        numbered_item_text(Strip(content_lines[line_i + k]))]
       IN  /\ elements' = IF items # <<>>
                          THEN Append(elements, list_element("numbered_list", items))
                          ELSE elements
           /\ line_i' = stop - 1

\* a code fence: the lines up to and including the next fence are skipped
ParseCode ==
    /\ Iterate("code")
    /\ line_i' = scan(content_lines, line_i + 2, LAMBDA l : ~is_fence(Strip(l)))
    /\ UNCHANGED elements

\* any other line is a text
ParseText ==
    /\ Iterate("text")
    /\ elements' = Append(elements, text_element(current_line))
    /\ line_i' = line_i + 1

\* the main loop ends: return elements
ParseEnd ==
    /\ deck_pc = "parse"
    /\ line_i >= Len(content_lines)
    /\ deck_pc' = "elements"
    /\ UNCHANGED <<slide_data, content_lines, line_i, iterations, elements,
                   is_title_slide, idx, y_pos, shapes>>
    /\ UNCHANGED vars

----------------------------------------------------------------------------
(* create_slide for a slide that is not single_page, where scale_factor is *)
(* 1.0.  Lengths are whole numbers of 1/7200 inch, in which every height   *)
(* the code adds to y_pos is exact.                                        *)

\* n / d inches
Inches(n, d) == (7200 * n) \div d

\* a line height of pt points, in inches: pt / 72.0
LineHeight(pt) == 100 * pt

\* t.replace(old, new) for texts
RECURSIVE replace(_, _, _)
replace(t, old, new) ==
    IF Len(t) < Len(old) THEN t
    ELSE IF startswith(t, old) THEN new \o replace(Drop(t, Len(old)), old, new)
    ELSE <<t[1]>> \o replace(Tail(t), old, new)

\* re.sub(r'<[^>]+>', '', t)
RECURSIVE remove_tags(_)
remove_tags(t) ==
    IF t = <<>> THEN <<>>
    ELSE LET close == Min({k \in 2..(Len(t) + 1) : k = Len(t) + 1 \/ t[k] = ">"})
         IN  IF t[1] = "<" /\ close >= 3 /\ close <= Len(t)
             THEN remove_tags(Drop(t, close))
             ELSE <<t[1]>> \o remove_tags(Tail(t))

clean_markdown_text(text) ==
    LET t1 == replace(text, <<"<", "b", "r", ">">>, <<"\n">>)
        t2 == replace(t1, <<"<", "b", "r", "/", ">">>, <<"\n">>)
        t3 == replace(t2, <<"<", "b", "r", " ", "/", ">">>, <<"\n">>)
    IN  Strip(remove_tags(t3))

\* add_formatted_text: total_lines, for a box width_pt10 tenths of a point wide
total_lines(text, width_pt10, font_size) ==
    LET ls == split(text, "\n")
        wrapped(l) == IF Strip(l) = <<>> THEN 1
                      ELSE Max({1, (9 * Len(l) * font_size) \div width_pt10 + 1})
    IN  sum([k \in 1..Len(ls) |-> wrapped(ls[k])])

\* add_formatted_text: current_height, the height of the box after resizing
text_height(text, width_pt10, height, font_size, line_height_pt) ==
    LET estimated == total_lines(clean_markdown_text(text), width_pt10, font_size)
                        * LineHeight(line_height_pt) + Inches(5, 100)
    IN  Max({height \div 2, Min({estimated, 3 * height})})

\* '\n'.join(['U+2022 ' + item for item in items])
bullet_text(items) ==
    Join([k \in 1..Len(items) |-> <<"U+2022", " ">> \o items[k]], <<"\n">>)

\* '\n'.join([f'{idx}. {item}' for idx, item in enumerate(items, 1)])
numbered_text(items) ==
    Join([k \in 1..Len(items) |-> IntStr(k) \o <<".", " ">> \o items[k]], <<"\n">>)

\* the list of an element as text
list_text(elem) ==
    IF elem.type = "list" THEN bullet_text(elem.items) ELSE numbered_text(elem.items)

\* a text and the list that follows it, joined
merged_element(elem, next_elem) ==
    [type |-> "text_with_list", text |-> elem.text, list_type |-> next_elem.type,
     list_items |-> next_elem.items,
     combined_text |-> elem.text \o <<"\n", "\n">> \o list_text(next_elem)]

\* merged_elements: every text followed by a list becomes one element
RECURSIVE merge_elements(_)
merge_elements(es) ==
    IF es = <<>> THEN <<>>
    ELSE IF /\ es[1].type = "text"
            /\ Len(es) >= 2
            /\ es[2].type \in {"list", "numbered_list"}
         THEN <<merged_element(es[1], es[2])>> \o merge_elements(Tail(Tail(es)))
         ELSE <<es[1]>> \o merge_elements(Tail(es))

\* the element after place k, None when k is the last
next_element(es, k) == IF k + 1 <= Len(es) THEN Some(es[k + 1]) ELSE None

\* the loop body gives the element a shape on the slide
is_drawn(elem) ==
    IF elem.type = "heading" THEN elem.level \in {1, 2, 3}
    ELSE IF elem.type = "text" THEN Strip(clean_markdown_text(elem.text)) # <<>>
    ELSE TRUE

\* what the loop body adds to y_pos for a heading
heading_advance(elem, next_elem, title) ==
    IF title /\ elem.level = 1 THEN
        Max({text_height(elem.text, 6480, Inches(12, 10), 23, 36), Inches(1, 1)})
            + Inches(3, 10)
    ELSE IF elem.level = 1 THEN
        (text_height(elem.text, 6480, Inches(1, 1), 23, 36) * 12) \div 10
    ELSE IF elem.level = 2 THEN
        text_height(elem.text, 6480, Inches(8, 10), 21, 32)
            + (IF ~next_elem.none /\ next_elem.val.type = "heading"
                    /\ next_elem.val.level = 3
               THEN Inches(5, 100) ELSE Inches(1, 10))
    ELSE IF elem.level = 3 THEN
        text_height(elem.text, 6480, Inches(6, 10), 19, 28)
            + (IF ~next_elem.none /\ next_elem.val.type = "text"
               THEN Inches(5, 100) ELSE Inches(8, 100))
    ELSE 0

\* what the loop body adds to y_pos for a text
text_advance(elem, title) ==
    IF ~is_drawn(elem) THEN 0
    ELSE IF title THEN
        Max({text_height(clean_markdown_text(elem.text), 6480, Inches(5, 10),
                         IF Contains(elem.text, <<"*", "*">>) THEN 17 ELSE 13,
                         IF Contains(elem.text, <<"*", "*">>) THEN 24 ELSE 20),
             Inches(4, 10)}) + Inches(2, 10)
    ELSE
        Max({text_height(clean_markdown_text(elem.text), 6480, Inches(5, 10), 13, 20),
             Inches(6, 10)})

\* the estimated height of a box of n lines of body text
lines_height(n) == n * LineHeight(20) + Inches(2, 10)

\* what the loop body adds to y_pos for the element
advance(elem, next_elem, title) ==
    IF elem.type = "heading" THEN heading_advance(elem, next_elem, title)
    ELSE IF elem.type = "quote" THEN (Inches(8, 10) * 125) \div 100
    ELSE IF elem.type = "table" THEN
        Min({Len(elem.data) * Inches(4, 10), Inches(4, 1)}) + Inches(3, 10)
    ELSE IF elem.type \in {"list", "numbered_list"} THEN
        text_height(list_text(elem), 6192, lines_height(Len(elem.items)), 13, 20)
            + Inches(2, 10)
    ELSE IF elem.type = "text_with_list" THEN
        text_height(clean_markdown_text(elem.combined_text), 6480,
                    lines_height(Multiplicity(clean_markdown_text(elem.combined_text), "\n") + 1),
                    13, 20)
            + Inches(2, 10)
    ELSE text_advance(elem, title)

\* slide_height - bottom_margin: 5.625 - 0.5 inches
usable_height == Inches(5625, 1000) - Inches(5, 10)

\* if not elements: return slide
ReturnEmpty ==
    /\ deck_pc = "elements"
    /\ elements = <<>>
    /\ deck_pc' = "returned"
    /\ UNCHANGED <<slide_data, content_lines, line_i, iterations, elements,
                   is_title_slide, idx, y_pos, shapes>>
    /\ UNCHANGED vars

\* is_title_slide, the start of y_pos and the merging of texts with lists
PrepareSlide ==
    /\ deck_pc = "elements"
    /\ elements # <<>>
    /\ is_title_slide' =
        (slide_data.is_title \/ (elements[1].type = "heading" /\ elements[1].level = 1))
    /\ y_pos' = IF is_title_slide' THEN Inches(1, 1) ELSE Inches(5, 10)
    /\ elements' = merge_elements(elements)
    /\ idx' = 0
    /\ deck_pc' = "render"
    /\ UNCHANGED <<slide_data, content_lines, line_i, iterations, shapes>>
    /\ UNCHANGED vars

\* one iteration of "for idx, elem in enumerate(elements)" up to the test of
\* y_pos
RenderStep ==
    /\ deck_pc = "render"
    /\ idx < Len(elements)
    /\ shapes' = IF is_drawn(elements[idx + 1]) THEN Append(shapes, idx + 1) ELSE shapes
    /\ y_pos' = y_pos + advance(elements[idx + 1], next_element(elements, idx + 1),
                                is_title_slide)
    /\ idx' = idx + 1
    /\ UNCHANGED <<slide_data, content_lines, line_i, iterations, elements, is_title_slide>>
    /\ UNCHANGED vars

\* an iteration after which y_pos is within the usable height, or the slide
\* is single_page: the loop goes on
Render ==
    /\ RenderStep
    /\ slide_data.single_page \/ y_pos' <= usable_height
    /\ deck_pc' = "render"

\* an iteration after which y_pos exceeds the usable height of a slide that
\* is not single_page: break
RenderAndBreak ==
    /\ RenderStep
    /\ ~slide_data.single_page /\ y_pos' > usable_height
    /\ deck_pc' = "returned"

\* the loop has visited every element: return slide
EndRender ==
    /\ deck_pc = "render"
    /\ idx = Len(elements)
    /\ deck_pc' = "returned"
    /\ UNCHANGED <<slide_data, content_lines, line_i, iterations, elements,
                   is_title_slide, idx, y_pos, shapes>>
    /\ UNCHANGED vars

----------------------------------------------------------------------------
(* The slides checked *)

\* the most lines of a slide of lines of every kind
MaxDeckLines == 3

\* the most lines of a slide of headings and texts
MaxSlideLines == 5

\* lines of every kind: blank, heading, quote, table rows with and without
\* cells, list items, a code fence and texts
DeckLines ==
    {<<>>,
     <<"#", "#", "#", "#", " ", "T">>,
     <<">", " ", "q">>,
     <<"|", " ", "a", " ", "|", " ", "b", " ", "|">>,
     <<"|", "-", "|", "-", "|">>,
     <<"a", "|", "b">>,
     <<"-", " ", "x">>,
     <<"1", ".", " ", "x">>,
     <<"U+0060", "U+0060", "U+0060">>,
     <<"t">>,
     <<" ", "a", "<", "b", "r", ">", "<", "i", ">", "b">>}

\* headings of levels 1 to 3 and a text
SlideLines ==
    {<<"#", " ", "T">>,
     <<"#", "#", " ", "S">>,
     <<"#", "#", "#", " ", "U">>,
     <<"t">>}

\* slide_data as parse_simple_markdown makes it for a slide that is not
\* single_page
SlideData(content, is_title) ==
    [content |-> content, is_title |-> is_title, single_page |-> FALSE]

\* the contents of at most n lines of S that parse_simple_markdown can
\* give: not empty and stripped
ContentInput(S, n) ==
    \E k \in 1..n :
        \E ls \in [1..k -> S], is_title \in BOOLEAN :
            /\ Join(ls, <<"\n">>) # <<>>
            /\ Strip(Join(ls, <<"\n">>)) = Join(ls, <<"\n">>)
            /\ slide_data = SlideData(Join(ls, <<"\n">>), is_title)

\* no PDF is being converted
PdfIdle ==
    /\ pdf = <<>>
    /\ body_size = None
    /\ page_num = 0
    /\ pc = "idle"
    /\ tbl = 0
    /\ lines = <<>>
    /\ ln = 0
    /\ current_list_type = "None"
    /\ numbered_counter = 0
    /\ paragraph_lines = <<>>
    /\ md_parts = <<>>
    /\ page_parts = <<>>
    /\ md_output = <<>>
    /\ result = None

DeckInit ==
    /\ PdfIdle
    /\ \/ ContentInput(DeckLines, MaxDeckLines)
       \/ ContentInput(SlideLines, MaxSlideLines)
    /\ content_lines = <<>>
    /\ line_i = 0
    /\ iterations = 0
    /\ elements = <<>>
    /\ is_title_slide = FALSE
    /\ idx = 0
    /\ y_pos = 0
    /\ shapes = <<>>
    /\ deck_pc = "start"

DeckNext ==
    \/ BeginParse
    \/ ParseBlank
    \/ ParseHeading
    \/ ParseQuote
    \/ ParseTable
    \/ ParseTableNoHeader
    \/ ParseList
    \/ ParseNumbered
    \/ ParseCode
    \/ ParseText
    \/ ParseEnd
    \/ ReturnEmpty
    \/ PrepareSlide
    \/ Render
    \/ RenderAndBreak
    \/ EndRender

DeckSpec == DeckInit /\ [][DeckNext]_deck_vars

----------------------------------------------------------------------------
(* C19: when create_slide leaves its loop over the elements of a slide     *)
(* that is not single_page because y_pos exceeds the usable height, no     *)
(* element is lost: every element of the slide that the loop body draws   *)
(* has been given a shape (on this slide, the only one main makes for the  *)
(* content).                                                               *)
C19_NoElementDropped ==
    (/\ deck_pc = "returned"
     /\ ~slide_data.single_page
     /\ y_pos > usable_height) =>
        \A k \in 1..Len(elements) :
            is_drawn(elements[k]) => \E n \in 1..Len(shapes) : shapes[n] = k

----------------------------------------------------------------------------
(* C20: every iteration of the main loop of parse_markdown_elements        *)
(* advances the line index by at least one, whatever the kind of the line, *)
(* so after any number of iterations the index is at least that number     *)
(* (and the loop ends after at most as many iterations as there are        *)
(* lines).                                                                 *)
C20_EveryIterationAdvances == iterations <= line_i

----------------------------------------------------------------------------
(* C21: the characters of a page that lie within the bbox of one of its    *)
(* tables give no heading, list, bold or paragraph block: the text of the  *)
(* table is in the table block only.  So when process_page returns for a   *)
(* page with tables, a letter stands in the blocks other than table blocks *)
(* at most as often as it stands among the characters of the page outside  *)
(* every table.                                                            *)

\* the character lies within the bbox of a table of the page
WithinTable(p, c) ==
    \E n \in 1..Len(p.table_tops) :
        p.table_tops[n] <= c.top /\ c.top <= p.table_bottoms[n]

\* the characters of the page outside every table
OutsideTables(p) == SelectSeq(p.chars, LAMBDA c : ~WithinTable(p, c))

\* the letters of the documents: the characters no block gets as a mark
Letters == {"a", "b", "c", "d", "t"}

\* how often the letter stands in the contents of the blocks
LetterInBlocks(parts, letter) ==
    sum([n \in 1..Len(parts) |-> Multiplicity(parts[n][2], letter)])

\* how often the letter stands among the characters
LetterInChars(cs, letter) ==
    Cardinality({k \in 1..Len(cs) : cs[k].text = letter})

\* the page being processed is one of characters with a table
PageWithTable ==
    /\ RawDocument
    /\ page_num >= 1
    /\ page.chars # <<>>
    /\ page.tables # <<>>

C21_TableTextOnlyInTableBlock ==
    (PageReturned /\ PageWithTable) =>
        \A letter \in Letters :
            LetterInBlocks(BlocksOf(md_parts, TextKinds), letter)
                <= LetterInChars(OutsideTables(page), letter)

====
